---- MODULE Spec2Model ----
(***************************************************************************)
(* Token-to-expert routing of a sparsely gated Mixture-of-Experts layer:   *)
(* top1gating and top2gating of component/Cmoe/routing.py, dense path.     *)
(*                                                                         *)
(* Numbers.  A logit is given by its exponential, a natural number w       *)
(* ("weight"): logit = ln w, and w = 0 is the logit -inf.  softmax is then *)
(* exact over the rationals, gates[s][e] = w[s][e] / (sum of row s), and   *)
(* every gate value, combine weight and loss is a fraction <<n, d>> in     *)
(* lowest terms.  Tokens are 1..S and experts 1..E (torch's index 0 is     *)
(* expert 1); slot locations are 0-based as in the source.                 *)
(*                                                                         *)
(* The dense path is modelled: has_tutel, imported from moe_layer, is      *)
(* false.  use_fp32 only changes the dtype and has no counterpart over     *)
(* exact fractions.  The diagnostics dictionary (entropy, histograms,      *)
(* overflow percentages) feeds nothing back into the routing and is not    *)
(* part of the state; its statements are taken to evaluate without error   *)
(* (torch.histc over an index tensor needs a build that accepts integer    *)
(* input).                                                                 *)
(***************************************************************************)
EXTENDS Integers, Sequences, FiniteSets

VARIABLES
    pc,               \* "call": inputs built; "returned" / "raised": after the call
    fn,               \* the routing function that ran ("none" before the call)
    logits,           \* S x E matrix of weights (exponentials of the logits)
    input_mask,       \* S booleans, TRUE = padding; all FALSE is also "None"
    args,             \* keyword arguments of the call
    gates,            \* softmax of the logits
    capacity,
    indices1_s,       \* first-choice expert of each token
    indices2_s,       \* second-choice expert of each token (top2gating)
    importance_scores,\* -gates.max(dim=1), read when batch-prioritized
    mask1_,           \* first-choice mask after padding, before capacity
    mask2_,           \* second-choice mask after padding, before capacity
    locations1,
    locations2,
    mask1,            \* first-choice mask after capacity
    mask2,            \* second-choice mask after capacity
    gates1_s,
    gates2_s,
    locations1_s,     \* slot of each token's admitted first choice
    locations2_s,     \* slot of each token's admitted second choice
    l_aux,
    combine_weights,  \* S x E x C fractions
    dispatch_mask     \* S x E x C booleans

vars == <<pc, fn, logits, input_mask, args, gates, capacity, indices1_s,
          indices2_s, importance_scores, mask1_, mask2_,
          locations1, locations2, mask1, mask2, gates1_s, gates2_s,
          locations1_s, locations2_s, l_aux,
          combine_weights, dispatch_mask>>

(***************************************************************************)
(* Bounds of the model.                                                    *)
(***************************************************************************)
MaxTokens == 3      \* S
MaxExperts == 3     \* E
MaxCells == 6       \* S * E, the entries of the logits matrix
LogitWeights == {0, 1, 2}   \* exp(logit): the logits -inf, 0 and ln 2

EVAL_CAPACITY_TOKEN_FRACTION == <<1, 4>>
CapacityFactors == {<<1, 2>>, <<1, 1>>, <<2, 1>>}
EvalFractions == {<<0, 1>>, EVAL_CAPACITY_TOKEN_FRACTION, <<1, 2>>}
Policies == {"sampling", "random", "other"}

(***************************************************************************)
(* Exact fractions.                                                        *)
(***************************************************************************)
RECURSIVE GCD(_, _)
GCD(a, b) == IF b = 0 THEN a ELSE GCD(b, a % b)

Frac(n, d) == IF n = 0 THEN <<0, 1>> ELSE <<n \div GCD(n, d), d \div GCD(n, d)>>
Zero == <<0, 1>>
One == <<1, 1>>
RAdd(a, b) == Frac(a[1] * b[2] + b[1] * a[2], a[2] * b[2])
RMul(a, b) == Frac(a[1] * b[1], a[2] * b[2])
RDiv(a, b) == Frac(a[1] * b[2], a[2] * b[1])
RLess(a, b) == a[1] * b[2] < b[1] * a[2]
RScale(k, a) == Frac(k * a[1], a[2])

RECURSIVE SumTo(_, _)
SumTo(f, n) == IF n = 0 THEN 0 ELSE f[n] + SumTo(f, n - 1)

RECURSIVE RSumTo(_, _)
RSumTo(f, n) == IF n = 0 THEN Zero ELSE RAdd(f[n], RSumTo(f, n - 1))

CeilDiv(a, b) == (a + b - 1) \div b

(***************************************************************************)
(* Shapes and shared numerics.                                             *)
(***************************************************************************)
num_tokens(L) == Len(L)
num_experts(L) == Len(L[1])

\* F.softmax(logits, dim=1)
softmax(L) ==
    [s \in 1..Len(L) |->
        [e \in 1..Len(L[s]) |-> Frac(L[s][e], SumTo(L[s], Len(L[s])))]]

\* torch.argmax over one row of weights: the first maximal entry.
argmax(row) ==
    CHOOSE e \in 1..Len(row) :
        /\ \A x \in 1..Len(row) : row[x] <= row[e]
        /\ \A x \in 1..(e - 1) : row[x] < row[e]

\* one_hot over the experts: row s has a 1 at indices[s].
one_hot(indices, num_classes) ==
    [s \in 1..Len(indices) |->
        [e \in 1..num_classes |-> IF e = indices[s] THEN 1 ELSE 0]]

\* one_hot over the slots 0..num_classes-1, for the location vector.
one_hot_sc(locs, num_classes) ==
    [s \in 1..Len(locs) |->
        [c \in 0..(num_classes - 1) |-> IF c = locs[s] THEN 1 ELSE 0]]

\* output.scatter_(dim, indices, 1) checks every index against the size of
\* the scattered dimension and raises when one is out of range.
scatter_in_bounds(locs, num_classes) ==
    \A s \in 1..Len(locs) : locs[s] >= 0 /\ locs[s] < num_classes

\* Exclusive prefix sum per expert column: the number of selected rows
\* strictly before row s.
fused_cumsum_sub_one(mask) ==
    [s \in 1..Len(mask) |->
        [e \in 1..Len(mask[s]) |->
            Cardinality({t \in 1..(s - 1) : mask[t][e] = 1})]]

\* Mutant of ApplyPadding: the padding mask is not applied.
IgnorePadding(mask, pad) == mask

\* mask * nonpadding.unsqueeze(-1), applied when input_mask.any()
ApplyPadding(mask, pad) ==
    IF \E s \in 1..Len(pad) : pad[s]
    THEN [s \in 1..Len(mask) |->
            [e \in 1..Len(mask[s]) |-> IF pad[s] THEN 0 ELSE mask[s][e]]]
    ELSE mask

\* (gates * mask).sum(dim=1)
MaskedGate(g, mask) ==
    [s \in 1..Len(g) |->
        RSumTo([e \in 1..Len(g[s]) |-> RScale(mask[s][e], g[s][e])],
               Len(g[s]))]

\* torch.sum(mask, dim=0)
ColumnSum(mask, e) == SumTo([s \in 1..Len(mask) |-> mask[s][e]], Len(mask))

\* mask * torch.lt(locations, capacity)
WithinCapacity(mask, locs, cap) ==
    [s \in 1..Len(mask) |->
        [e \in 1..Len(mask[s]) |->
            IF locs[s][e] < cap THEN mask[s][e] ELSE 0]]

\* torch.sum(locations * mask, dim=1)
LocationOf(locs, mask) ==
    [s \in 1..Len(mask) |->
        SumTo([e \in 1..Len(mask[s]) |-> locs[s][e] * mask[s][e]], Len(mask[s]))]

\* Mutant of BalanceLoss: me sums the gates over the tokens instead of
\* averaging them.
BalanceLossSumOverTokens(g, m1) ==
    LET S == Len(g)
        E == Len(g[1])
        me == [e \in 1..E |-> RSumTo([s \in 1..S |-> g[s][e]], S)]
        ce == [e \in 1..E |-> Frac(ColumnSum(m1, e), S)]
        mean == RDiv(RSumTo([e \in 1..E |-> RMul(me[e], ce[e])], E), <<E, 1>>)
    IN  RScale(E, RScale(E, mean))

\* Mutant of BalanceLoss: me * ce is summed over the experts, not averaged.
BalanceLossSumOverExperts(g, m1) ==
    LET S == Len(g)
        E == Len(g[1])
        me == [e \in 1..E |->
                 RDiv(RSumTo([s \in 1..S |-> g[s][e]], S), <<S, 1>>)]
        ce == [e \in 1..E |-> Frac(ColumnSum(m1, e), S)]
        total == RSumTo([e \in 1..E |-> RMul(me[e], ce[e])], E)
    IN  RScale(E, RScale(E, total))

\* me = mean(gates, dim=0); ce = mean(mask1, dim=0);
\* l_aux = mean(me * ce) * num_experts * num_experts
BalanceLoss(g, m1) ==
    LET S == Len(g)
        E == Len(g[1])
        me == [e \in 1..E |->
                 RDiv(RSumTo([s \in 1..S |-> g[s][e]], S), <<S, 1>>)]
        ce == [e \in 1..E |-> Frac(ColumnSum(m1, e), S)]
        mean == RDiv(RSumTo([e \in 1..E |-> RMul(me[e], ce[e])], E), <<E, 1>>)
    IN  RScale(E, RScale(E, mean))

\* Mutant of Combine: the gate vector is not multiplied by the mask, so a
\* dropped token keeps its weight.
CombineIgnoringMask(gs, mask, loc_sc, cap) ==
    [s \in 1..Len(mask) |->
        [e \in 1..Len(mask[s]) |->
            [c \in 0..(cap - 1) |-> RScale(loc_sc[s][c], gs[s])]]]

\* einsum("se,sc->sec") of gates_s[s] * mask[s][e] with the slot one-hot
Combine(gs, mask, loc_sc, cap) ==
    [s \in 1..Len(mask) |->
        [e \in 1..Len(mask[s]) |->
            [c \in 0..(cap - 1) |-> RScale(mask[s][e] * loc_sc[s][c], gs[s])]]]

\* combine1_sec + combine2_sec
AddCombine(a, b) ==
    [s \in DOMAIN a |-> [e \in DOMAIN a[s] |->
        [c \in DOMAIN a[s][e] |-> RAdd(a[s][e][c], b[s][e][c])]]]

\* combine_weights.bool()
ToBool(cw) ==
    [s \in DOMAIN cw |-> [e \in DOMAIN cw[s] |->
        [c \in DOMAIN cw[s][e] |-> cw[s][e][c] # Zero]]]

\* indices1_s = torch.argmax(gates, dim=1): softmax keeps the order of a
\* row, so the first maximal gate is the first maximal weight.
Indices1(L) == [s \in 1..Len(L) |-> argmax(L[s])]

\* capacity of top1gating
Capacity1(S, E, a) ==
    IF a.moe_eval_capacity_token_fraction[1] > 0 /\ a.eval_mode
    THEN CeilDiv(a.moe_eval_capacity_token_fraction[1] * S,
                 a.moe_eval_capacity_token_fraction[2])
    ELSE (a.capacity_factor[1] * CeilDiv(S, E)) \div a.capacity_factor[2]

(***************************************************************************)
(* Inputs.                                                                 *)
(***************************************************************************)
Shapes ==
    {sh \in (1..MaxTokens) \X (1..MaxExperts) : sh[1] * sh[2] <= MaxCells}

\* The rows of logits: the largest logit of a row is ln 2 (softmax and
\* arg-max do not change when a constant is added to a row), the others
\* are ln 2, 0 or -inf.
Rows(E) == {r \in [1..E -> LogitWeights] : \E e \in 1..E : r[e] = 2}

Init ==
    /\ pc = "call"
    /\ fn = "none"
    /\ \E sh \in Shapes :
         /\ logits \in [1..sh[1] -> Rows(sh[2])]
         /\ input_mask \in [1..sh[1] -> BOOLEAN]
    /\ args = <<>>
    /\ gates = <<>>
    /\ capacity = 0
    /\ indices1_s = <<>>
    /\ indices2_s = <<>>
    /\ importance_scores = <<>>
    /\ mask1_ = <<>>
    /\ mask2_ = <<>>
    /\ locations1 = <<>>
    /\ locations2 = <<>>
    /\ mask1 = <<>>
    /\ mask2 = <<>>
    /\ gates1_s = <<>>
    /\ gates2_s = <<>>
    /\ locations1_s = <<>>
    /\ locations2_s = <<>>
    /\ l_aux = Zero
    /\ combine_weights = <<>>
    /\ dispatch_mask = <<>>

(***************************************************************************)
(* top1gating.  The conjuncts follow the statements of the function in     *)
(* order; a primed variable is the local of that name once assigned.       *)
(***************************************************************************)
\* Arguments whose value is never read are held at their default: the eval
\* fraction when eval_mode is off, capacity_factor when the eval branch runs.
Top1Args ==
    {a \in [capacity_factor : CapacityFactors,
            eval_mode : BOOLEAN,
            moe_eval_capacity_token_fraction : EvalFractions] :
        /\ ~a.eval_mode =>
              a.moe_eval_capacity_token_fraction = EVAL_CAPACITY_TOKEN_FRACTION
        /\ (a.eval_mode /\ a.moe_eval_capacity_token_fraction[1] > 0) =>
              a.capacity_factor = One}

Top1Gating ==
    /\ pc = "call"
    /\ fn' = "top1gating"
    /\ args' \in Top1Args
    /\ gates' = softmax(logits)
    /\ capacity' = Capacity1(num_tokens(logits), num_experts(logits), args')
    /\ indices1_s' = Indices1(logits)
    /\ mask1_' = ApplyPadding(one_hot(indices1_s', num_experts(logits)),
                             input_mask)
    /\ gates1_s' = MaskedGate(gates', mask1_')
    /\ locations1' = fused_cumsum_sub_one(mask1_')
    /\ l_aux' = BalanceLoss(gates', mask1_')
    /\ mask1' = WithinCapacity(mask1_', locations1', capacity')
    /\ locations1_s' = LocationOf(locations1', mask1')
    /\ UNCHANGED <<logits, input_mask, indices2_s, importance_scores, mask2_,
                   mask2, locations2, gates2_s, locations2_s>>
    /\ IF scatter_in_bounds(locations1_s', capacity')
       THEN /\ pc' = "returned"
            /\ combine_weights' =
                  Combine(gates1_s', mask1',
                          one_hot_sc(locations1_s', capacity'), capacity')
            /\ dispatch_mask' = ToBool(combine_weights')
       ELSE /\ pc' = "raised"
            /\ UNCHANGED <<combine_weights, dispatch_mask>>

(***************************************************************************)
(* top2gating                                                              *)
(***************************************************************************)
Top2Args ==
    {a \in [second_expert_policy : Policies,
            normalize_gate_prob_before_dropping : BOOLEAN,
            eval_mode : BOOLEAN,
            moe_eval_capacity_token_fraction : EvalFractions,
            batch_prioritized_routing : BOOLEAN] :
        ~a.eval_mode =>
            a.moe_eval_capacity_token_fraction = EVAL_CAPACITY_TOKEN_FRACTION}

\* capacity of top2gating
Capacity2(S, E, a) ==
    IF a.moe_eval_capacity_token_fraction[1] > 0 /\ a.eval_mode
    THEN CeilDiv(a.moe_eval_capacity_token_fraction[1] * S,
                 a.moe_eval_capacity_token_fraction[2])
    ELSE 2 * CeilDiv(S, E)

\* logits_w_noise.masked_fill(mask1.bool(), -inf), one row
masked_fill(row, i1) == [e \in 1..Len(row) |-> IF e = i1 THEN 0 ELSE row[e]]

\* The arg-max of a row after independent Gumbel noise was added to it: any
\* entry with a finite logit can win; -inf plus noise stays -inf.
gumbel_argmax(row) ==
    IF \E e \in 1..Len(row) : row[e] > 0
    THEN {e \in 1..Len(row) : row[e] > 0}
    ELSE {argmax(row)}

\* The values indices2_s can take.
Indices2Choices(L, policy) ==
    {i2 \in [1..Len(L) -> 1..Len(L[1])] :
        \A s \in 1..Len(L) :
            LET logits_except1 == masked_fill(L[s], argmax(L[s]))
            IN  IF policy = "sampling"
                THEN i2[s] \in gumbel_argmax(logits_except1)
                ELSE i2[s] = argmax(logits_except1)}

\* gates1_s, gates2_s right after selection, normalized when
\* normalize_gate_prob_before_dropping is set.
SelectedGate(g, idx, other, before) ==
    [s \in 1..Len(g) |->
        IF before
        THEN RDiv(g[s][idx[s]], RAdd(g[s][idx[s]], g[s][other[s]]))
        ELSE g[s][idx[s]]]

\* sampled = (2 * gates2_s) > torch.rand_like(gates2_s), the draw in [0, 1)
SampledChoices(g2s, policy) ==
    {smp \in [1..Len(g2s) -> BOOLEAN] :
        \A s \in 1..Len(g2s) :
            IF policy = "random"
            THEN /\ (g2s[s] = Zero => ~smp[s])
                 /\ (~RLess(RScale(2, g2s[s]), One) => smp[s])
            ELSE smp[s]}

\* mask2 * sampled.repeat(num_experts, 1).transpose(1, 0)
KeepSampled(mask, smp) ==
    [s \in 1..Len(mask) |->
        [e \in 1..Len(mask[s]) |-> IF smp[s] THEN mask[s][e] ELSE 0]]

\* gates.max(dim=1)[0]
MaxGate(g, s) ==
    CHOOSE m \in {g[s][e] : e \in 1..Len(g[s])} :
        \A e \in 1..Len(g[s]) : ~RLess(m, g[s][e])

\* Mutant of ImportanceScores: the sign is lost, the least confident token
\* sorts first.
ImportanceScoresUnnegated(g) == [s \in 1..Len(g) |-> MaxGate(g, s)]

\* importance_scores = -1 * gates.max(dim=1)[0]
ImportanceScores(g) ==
    [s \in 1..Len(g) |-> <<0 - MaxGate(g, s)[1], MaxGate(g, s)[2]>>]

\* scores.argsort(dim=0), ascending: position k holds token order[k].  The
\* sort is not stable, so among equal scores every order is possible.
argsort(scores) ==
    {order \in [1..Len(scores) -> 1..Len(scores)] :
        /\ \A k, l \in 1..Len(scores) : k # l => order[k] # order[l]
        /\ \A k \in 1..(Len(scores) - 1) :
              ~RLess(scores[order[k + 1]], scores[order[k]])}

\* order.argsort(): the position of each token in the sorted order
Rank(order, s) == CHOOSE k \in 1..Len(order) : order[k] = s

\* Mutant of ImportanceSortedLocations: the prefix sum runs over the batch
\* order, the sort is ignored.
UnsortedLocations(mask, order) ==
    [s \in 1..Len(mask) |->
        [e \in 1..Len(mask[s]) |->
            fused_cumsum_sub_one(mask)[s][e] * mask[s][e]]]

\* sorted_mask = mask[order]; sorted_cumsum = fused_cumsum_sub_one(sorted_mask)
\* * sorted_mask; importance_sorted_locations = sorted_cumsum[order.argsort()]
ImportanceSortedLocations(mask, order) ==
    LET sorted_mask == [k \in 1..Len(mask) |-> mask[order[k]]]
        cumsum == fused_cumsum_sub_one(sorted_mask)
    IN  [s \in 1..Len(mask) |->
            [e \in 1..Len(mask[s]) |->
                cumsum[Rank(order, s)][e] * sorted_mask[Rank(order, s)][e]]]

\* Mutant of AddFirstCount: the second-choice locations are not offset.
NoFirstCount(locs, m1) == locs

\* locations2 += torch.sum(mask1, dim=0, keepdim=True)
AddFirstCount(locs, m1) ==
    [s \in 1..Len(locs) |->
        [e \in 1..Len(locs[s]) |-> locs[s][e] + ColumnSum(m1, e)]]

\* Mutant of NormalizeAfter: the surviving gates are not renormalized.
NoNormalizeAfter(a, b) == a

\* denom_s = clamp(gates1_s + gates2_s, min=eps); gates_s /= denom_s.  A zero
\* sum has zero summands, and every positive sum here is far above eps.
NormalizeAfter(a, b) ==
    [s \in 1..Len(a) |->
        IF RAdd(a[s], b[s]) = Zero THEN Zero ELSE RDiv(a[s], RAdd(a[s], b[s]))]

Top2Gating ==
    /\ pc = "call"
    /\ fn' = "top2gating"
    /\ args' \in Top2Args
    /\ gates' = softmax(logits)
    /\ capacity' = Capacity2(num_tokens(logits), num_experts(logits), args')
    /\ indices1_s' = Indices1(logits)
    /\ mask1_' = ApplyPadding(one_hot(indices1_s', num_experts(logits)),
                             input_mask)
    /\ indices2_s' \in Indices2Choices(logits, args'.second_expert_policy)
    /\ importance_scores' = ImportanceScores(gates')
    /\ LET before == args'.normalize_gate_prob_before_dropping
           g1 == SelectedGate(gates', indices1_s', indices2_s', before)
           g2 == SelectedGate(gates', indices2_s', indices1_s', before)
       IN   /\ \E sampled \in SampledChoices(g2, args'.second_expert_policy) :
                mask2_' = ApplyPadding(
                             KeepSampled(one_hot(indices2_s', num_experts(logits)),
                                         sampled),
                             input_mask)
            /\ IF args'.batch_prioritized_routing
               THEN \E order \in argsort(importance_scores') :
                      /\ locations1' = ImportanceSortedLocations(mask1_', order)
                      /\ locations2' = AddFirstCount(
                            ImportanceSortedLocations(mask2_', order), mask1_')
               ELSE /\ locations1' = fused_cumsum_sub_one(mask1_')
                    /\ locations2' = AddFirstCount(fused_cumsum_sub_one(mask2_'),
                                                  mask1_')
            /\ l_aux' = BalanceLoss(gates', mask1_')
            /\ mask1' = WithinCapacity(mask1_', locations1', capacity')
            /\ mask2' = WithinCapacity(mask2_', locations2', capacity')
            /\ IF before
               THEN /\ gates1_s' = g1
                    /\ gates2_s' = g2
               ELSE /\ gates1_s' = NormalizeAfter(MaskedGate(gates', mask1'),
                                                  MaskedGate(gates', mask2'))
                    /\ gates2_s' = NormalizeAfter(MaskedGate(gates', mask2'),
                                                  MaskedGate(gates', mask1'))
    /\ UNCHANGED <<logits, input_mask>>
    /\ locations1_s' = LocationOf(locations1', mask1')
    /\ locations2_s' = LocationOf(locations2', mask2')
    /\ IF /\ scatter_in_bounds(locations1_s', capacity')
          /\ scatter_in_bounds(locations2_s', capacity')
       THEN /\ pc' = "returned"
            /\ combine_weights' =
                  AddCombine(
                      Combine(gates1_s', mask1',
                              one_hot_sc(locations1_s', capacity'), capacity'),
                      Combine(gates2_s', mask2',
                              one_hot_sc(locations2_s', capacity'), capacity'))
            /\ dispatch_mask' = ToBool(combine_weights')
       ELSE /\ pc' = "raised"
            /\ UNCHANGED <<combine_weights, dispatch_mask>>

Next == Top1Gating \/ Top2Gating

Spec == Init /\ [][Next]_vars

(***************************************************************************)
(* Properties.  The definitions below restate the routing from the inputs  *)
(* (logits through gates, input_mask, args), not from the operators above. *)
(***************************************************************************)
Tokens == 1..Len(logits)
Experts == 1..Len(logits[1])
Slots == 0..(capacity - 1)
Returned(f) == pc = "returned" /\ fn = f
NonPadded(s) == ~input_mask[s]

\* no logit is -inf
FiniteLogits == \A s \in Tokens, e \in Experts : logits[s][e] > 0

\* the expert of the largest gate probability, the first one among equals
FirstChoice(s) ==
    CHOOSE e \in Experts :
        /\ \A x \in Experts : ~RLess(gates[s][e], gates[s][x])
        /\ \A x \in Experts : x < e => RLess(gates[s][x], gates[s][e])

TopGate(s) == gates[s][FirstChoice(s)]

\* the non-padded tokens whose first choice is e
FirstSelectors(e) == {s \in Tokens : NonPadded(s) /\ FirstChoice(s) = e}

\* the tokens whose second choice is e, after the random policy and padding
SecondSelectors(e) == {s \in Tokens : mask2_[s][e] = 1}

\* the (token, slot) cells of expert e that are true in the dispatch mask
Dispatched(e) == {sc \in Tokens \X Slots : dispatch_mask[sc[1]][e][sc[2]]}

\* C1: when a routing call returns, every expert has at most `capacity`
\* true entries in the dispatch mask, over all tokens and slots.
CapacityInvariant ==
    pc = "returned" =>
        \A e \in Experts : Cardinality(Dispatched(e)) <= capacity

\* C1 witness: an expert is filled to capacity and an assignment to it was
\* dropped.
CapacityInvariantWitness ==
    /\ Returned("top2gating")
    /\ FiniteLogits
    /\ \E e \in Experts :
          /\ Cardinality(Dispatched(e)) = capacity
          /\ \E s \in Tokens :
                \/ mask1_[s][e] = 1 /\ mask1[s][e] = 0
                \/ mask2_[s][e] = 1 /\ mask2[s][e] = 0

\* C2 (as claimed): in top2gating the first-choice mask and the
\* second-choice mask, as built from indices1_s and indices2_s, never select
\* the same expert for the same token.
MasksDisjoint ==
    fn = "top2gating" =>
        \A s \in Tokens, e \in Experts :
            ~(/\ one_hot(indices1_s, Len(logits[1]))[s][e] = 1
              /\ one_hot(indices2_s, Len(logits[1]))[s][e] = 1)

\* C3 (as claimed): a top1gating call whose capacity is 0 returns, with
\* all-zero combine weights and an all-false dispatch mask.
ZeroCapacityReturns ==
    (fn = "top1gating" /\ capacity = 0) =>
        /\ pc = "returned"
        /\ \A s \in Tokens, e \in Experts, c \in Slots :
              combine_weights[s][e][c] = Zero /\ ~dispatch_mask[s][e][c]

\* the number of first selectors of e before token s in the batch
SeqRank(s, e) == Cardinality({t \in FirstSelectors(e) : t < s})

\* C4: top1gating admits, for every expert e, exactly the first
\* min(n_e, capacity) non-padded tokens whose arg-max is e, the k-th of them
\* at slot k - 1; every other cell of the combine weights is zero.
Top1SequenceAdmission ==
    Returned("top1gating") =>
        \A s \in Tokens, e \in Experts, c \in Slots :
            /\ dispatch_mask[s][e][c] <=>
                  (s \in FirstSelectors(e) /\ SeqRank(s, e) = c)
            /\ ~dispatch_mask[s][e][c] => combine_weights[s][e][c] = Zero

\* C4 witness: three tokens prefer the same expert, the capacity is 1, the
\* first is admitted and the other two have all-zero rows.
Top1SequenceAdmissionWitness ==
    /\ Returned("top1gating")
    /\ capacity = 1
    /\ \E e \in Experts :
          /\ FirstSelectors(e) = {1, 2, 3}
          /\ dispatch_mask[1][e][0]
          /\ ~dispatch_mask[2][e][0] /\ ~dispatch_mask[3][e][0]

\* C5: with batch_prioritized_routing, of two non-padded tokens that select
\* the same expert at the same rank, the one with the strictly higher
\* maximum gate probability is admitted whenever the other one is.
BatchPrioritizedAdmission ==
    (Returned("top2gating") /\ args.batch_prioritized_routing) =>
        \A i, j \in Tokens, e \in Experts :
            (NonPadded(i) /\ NonPadded(j) /\ RLess(TopGate(j), TopGate(i))) =>
                /\ (FirstChoice(i) = e /\ FirstChoice(j) = e /\ mask1[j][e] = 1)
                      => mask1[i][e] = 1
                /\ (i \in SecondSelectors(e) /\ j \in SecondSelectors(e)
                        /\ mask2[j][e] = 1)
                      => mask2[i][e] = 1

\* C5 witness: the more confident token comes later in the batch, competes
\* for the same expert, and is the one admitted.
BatchPrioritizedAdmissionWitness ==
    /\ Returned("top2gating")
    /\ FiniteLogits
    /\ args.batch_prioritized_routing
    /\ \E i, j \in Tokens, e \in Experts :
          /\ j < i
          /\ NonPadded(i) /\ NonPadded(j)
          /\ RLess(TopGate(j), TopGate(i))
          /\ \/ /\ FirstChoice(i) = e /\ FirstChoice(j) = e
                /\ mask1[i][e] = 1 /\ mask1[j][e] = 0
             \/ /\ i \in SecondSelectors(e) /\ j \in SecondSelectors(e)
                /\ mask2[i][e] = 1 /\ mask2[j][e] = 0

\* the first choice of token s is admitted and its second choice is dropped
\* by capacity
FirstKeptSecondDropped(s) ==
    /\ mask1[s][indices1_s[s]] = 1
    /\ mask2_[s][indices2_s[s]] = 1
    /\ mask2[s][indices2_s[s]] = 0

\* C6: for a token whose first choice is admitted and whose second choice is
\* dropped by capacity, the combine weight of the first-choice cell is
\* g1 / (g1 + g2) when normalize_gate_prob_before_dropping is set and 1 when
\* it is not, and every other cell of the token is 0.
NormalizationOrder ==
    Returned("top2gating") =>
        \A s \in Tokens :
            FirstKeptSecondDropped(s) =>
                LET e1 == indices1_s[s]
                    c1 == locations1[s][e1]
                    g1 == gates[s][e1]
                    g2 == gates[s][indices2_s[s]]
                IN  /\ combine_weights[s][e1][c1] =
                          IF args.normalize_gate_prob_before_dropping
                          THEN RDiv(g1, RAdd(g1, g2))
                          ELSE One
                    /\ \A e \in Experts, c \in Slots :
                          <<e, c>> # <<e1, c1>> =>
                              combine_weights[s][e][c] = Zero

\* C6 witness: the default order, gates (2/3, 1/3), second choice dropped:
\* the surviving first choice weighs 1, not 2/3.
NormalizationOrderWitness ==
    /\ Returned("top2gating")
    /\ FiniteLogits
    /\ ~args.normalize_gate_prob_before_dropping
    /\ \E s \in Tokens :
          /\ FirstKeptSecondDropped(s)
          /\ gates[s][indices1_s[s]] = <<2, 3>>
          /\ gates[s][indices2_s[s]] = <<1, 3>>
          /\ combine_weights[s][indices1_s[s]][locations1[s][indices1_s[s]]] = One

\* every gate probability is 1/E and every expert is the first choice of
\* exactly S/E non-padded tokens
UniformRouting ==
    /\ \A s \in Tokens, e \in Experts : gates[s][e] = Frac(1, Len(logits[1]))
    /\ \A e \in Experts :
          Cardinality(FirstSelectors(e)) * Len(logits[1]) = Len(logits)

\* C7: under uniform routing the auxiliary loss returned by either function
\* is 1, whatever the capacity drops afterwards.
UniformLossIsOne == (pc = "returned" /\ UniformRouting) => l_aux = One

\* A stronger form of C7: balanced first choices alone make the loss 1,
\* since the mean gate probabilities of the experts sum to 1.
BalancedLossIsOne ==
    (pc = "returned"
        /\ \A e \in Experts :
              Cardinality(FirstSelectors(e)) * Len(logits[1]) = Len(logits))
    => l_aux = One

\* C7 witness: uniform routing where capacity drops a first choice.
UniformLossIsOneWitness ==
    /\ pc = "returned"
    /\ UniformRouting
    /\ l_aux = One
    /\ \E s \in Tokens, e \in Experts : mask1_[s][e] = 1 /\ mask1[s][e] = 0

\* mean over all S tokens of the gate probability of expert e
MeanGate(e) ==
    RDiv(RSumTo([s \in Tokens |-> gates[s][e]], Len(logits)), <<Len(logits), 1>>)

\* fraction of all S tokens that are non-padded and have e as first choice
FirstFraction(e) == Frac(Cardinality(FirstSelectors(e)), Len(logits))

\* SUM over the experts of MeanGate * FirstFraction
BalanceSum ==
    RSumTo([e \in Experts |-> RMul(MeanGate(e), FirstFraction(e))],
           Len(logits[1]))

\* C8 (as claimed): the auxiliary loss is E^2 times the SUM over the experts
\* of mean gate probability times first-choice fraction.
LossIsSquareTimesSum ==
    pc = "returned" =>
        l_aux = RScale(Len(logits[1]) * Len(logits[1]), BalanceSum)

\* C8 (amended): the auxiliary loss is E^2 times the MEAN over the experts
\* of mean gate probability times first-choice fraction, that is E times
\* their sum.
LossIsSquareTimesMean ==
    pc = "returned" =>
        l_aux = RScale(Len(logits[1]) * Len(logits[1]),
                       RDiv(BalanceSum, <<Len(logits[1]), 1>>))

\* C8 witness: several experts, a padded token, a first choice dropped by
\* capacity, and a loss that is not 1.
LossIsSquareTimesMeanWitness ==
    /\ pc = "returned"
    /\ FiniteLogits
    /\ Len(logits[1]) >= 2
    /\ \E s \in Tokens : input_mask[s]
    /\ \E s \in Tokens, e \in Experts : mask1_[s][e] = 1 /\ mask1[s][e] = 0
    /\ l_aux # One
    /\ l_aux # Zero

\* the admitted assignments to expert e: <<token, rank>>
Admitted(e) ==
    {a \in Tokens \X {1, 2} :
        IF a[2] = 1 THEN mask1[a[1]][e] = 1 ELSE mask2[a[1]][e] = 1}

\* the computed slot location of an assignment to expert e
LocationAt(a, e) ==
    IF a[2] = 1 THEN locations1[a[1]][e] ELSE locations2[a[1]][e]

\* C9: in top2gating the locations of the admitted assignments to an expert
\* are pairwise distinct and are exactly 0 .. k-1, k <= capacity being their
\* number; a dispatch cell holds at most one token and belongs to an
\* admitted assignment; an assignment located at capacity or beyond is not
\* admitted.
SlotPrefix ==
    Returned("top2gating") =>
        \A e \in Experts :
            /\ \A a, b \in Admitted(e) :
                  a # b => LocationAt(a, e) # LocationAt(b, e)
            /\ {LocationAt(a, e) : a \in Admitted(e)} =
                  0..(Cardinality(Admitted(e)) - 1)
            /\ Cardinality(Admitted(e)) <= capacity
            /\ \A c \in Slots :
                  Cardinality({s \in Tokens : dispatch_mask[s][e][c]}) <= 1
            /\ \A s \in Tokens, c \in Slots :
                  dispatch_mask[s][e][c] =>
                      \E a \in Admitted(e) : a[1] = s /\ LocationAt(a, e) = c
            /\ \A s \in Tokens :
                  /\ (mask1_[s][e] = 1 /\ locations1[s][e] >= capacity)
                        => mask1[s][e] = 0
                  /\ (mask2_[s][e] = 1 /\ locations2[s][e] >= capacity)
                        => mask2[s][e] = 0

\* C9 witness: an expert holds a first choice and another token's second
\* choice, and a third assignment to it is dropped.
SlotPrefixWitness ==
    /\ Returned("top2gating")
    /\ FiniteLogits
    /\ \E e \in Experts, s, t, u \in Tokens :
          /\ s # t
          /\ mask1[s][e] = 1
          /\ mask2[t][e] = 1
          /\ mask2_[u][e] = 1 /\ mask2[u][e] = 0

\* C10: the location of a second-choice assignment to e is its rank among
\* the second-choice selectors of e (batch order, or descending confidence
\* when batch-prioritized, any order among equal confidences) plus the number
\* of ALL non-padded tokens whose first choice is e; so when that number
\* reaches the capacity no second choice of e is admitted.
SecondChoiceOffset ==
    Returned("top2gating") =>
        \A e \in Experts :
            LET n1 == Cardinality(FirstSelectors(e))
                rank(s) == locations2[s][e] - n1
            IN  /\ \A s \in SecondSelectors(e) :
                      IF args.batch_prioritized_routing
                      THEN /\ rank(s) >= Cardinality(
                                 {t \in SecondSelectors(e) :
                                     RLess(TopGate(s), TopGate(t))})
                           /\ rank(s) <= Cardinality(
                                 {t \in SecondSelectors(e) \ {s} :
                                     ~RLess(TopGate(t), TopGate(s))})
                      ELSE rank(s) =
                             Cardinality({t \in SecondSelectors(e) : t < s})
                /\ \A s, t \in SecondSelectors(e) :
                      s # t => locations2[s][e] # locations2[t][e]
                /\ n1 >= capacity => \A s \in Tokens : mask2[s][e] = 0

\* C10 witness: a first choice of e is dropped by capacity and still counts
\* in the offset of another token's second choice of e.
SecondChoiceOffsetWitness ==
    /\ Returned("top2gating")
    /\ FiniteLogits
    /\ \E e \in Experts, s, t \in Tokens :
          /\ mask1_[t][e] = 1 /\ mask1[t][e] = 0
          /\ indices1_s[s] # e
          /\ s \in SecondSelectors(e)
          /\ locations2[s][e] >= Cardinality(FirstSelectors(e))
          /\ Cardinality(FirstSelectors(e)) >
                Cardinality({x \in Tokens : mask1[x][e] = 1})
====
